---- MODULE Spec2Model ----
(***************************************************************************)
(* State-machine model of src/server.js (ZirCatz server).                  *)
(*                                                                         *)
(* The server runs, on one event loop:                                     *)
(*   - fetchAndStoreSVGs, the Reconciler pass, started by the 10 s timer   *)
(*     (startPeriodicFetch) and by GET /fetch-svgs;                        *)
(*   - listenForTextSetEvents, the TextSet subscription and its handler;   *)
(*   - the HTTP handlers /publish-svg and /get-cat-text/:tokenId.          *)
(* Every `await` of the source is a suspension point: an async function is *)
(* modelled as a record whose pc names the await it is suspended at, and   *)
(* one action resolves one await and runs the synchronous code up to the   *)
(* next one.                                                               *)
(*                                                                         *)
(* Strings that the code converts (token ids, token URIs, decoded SVG) are *)
(* sequences of one-character strings, so that toString, split and the     *)
(* base64 decoding are computed.  Strings the code only copies (the event  *)
(* text) are TLA+ strings.                                                 *)
(*                                                                         *)
(* Left out: the createdAt field of a stored document (written once by     *)
(* insertOne, read by no code path), console logging, CORS, and the routes *)
(* /generate-svg and /get-svgs, which write nothing.                       *)
(***************************************************************************)
EXTENDS Integers, Sequences, FiniteSets

VARIABLES
    chain,      \* the contract: chain[k+1] is the token URI of the token at index k
    stable,     \* TRUE once the environment stopped failing and minting
    alive,      \* the Node process (and with it the setInterval timer) is running
    pass,       \* the invocations of fetchAndStoreSVGs, one record per slot
    svgs,       \* Store collection "svgs", in insertion order
    catTexts,   \* Store collection "catTexts", in insertion order
    listener,   \* listenForTextSetEvents: its state and whether it was attempted
    events,     \* the TextSet handler invocations, in delivery order
    catReq,     \* the GET /get-cat-text/:tokenId request in flight
    pubReq,     \* the POST /publish-svg request in flight
    last,       \* history: the invocation of fetchAndStoreSVGs that returned last
    afterClean  \* history: the last thing that happened to chain and "svgs" was
                \* an undisturbed pass that returned with no RPC or store error

vars == <<chain, stable, alive, pass, svgs, catTexts, listener, events,
          catReq, pubReq, last, afterClean>>

---------------------------------------------------------------------------
(* Bounds of the model. *)

\* tokens the contract ever mints
MaxSupply == 2
\* invocations of fetchAndStoreSVGs that overlap in time
MaxPasses == 2
\* TextSet events delivered to the handler
MaxEvents == 2
\* documents /publish-svg inserts
MaxPublished == 1

Slots == 1..MaxPasses

---------------------------------------------------------------------------
(* Strings. *)

Digits == <<"0", "1", "2", "3", "4", "5", "6", "7", "8", "9">>

\* BigInt.prototype.toString(): the decimal digits of n >= 0.
RECURSIVE toString(_)
toString(n) ==
    IF n < 10 THEN <<Digits[n + 1]>>
    ELSE toString(n \div 10) \o <<Digits[(n % 10) + 1]>>

\* The base64 alphabet; a character's value is its position minus one.
B64Alphabet ==
    <<"A", "B", "C", "D", "E", "F", "G", "H", "I", "J", "K", "L", "M",
      "N", "O", "P", "Q", "R", "S", "T", "U", "V", "W", "X", "Y", "Z",
      "a", "b", "c", "d", "e", "f", "g", "h", "i", "j", "k", "l", "m",
      "n", "o", "p", "q", "r", "s", "t", "u", "v", "w", "x", "y", "z",
      "0", "1", "2", "3", "4", "5", "6", "7", "8", "9", "+", "/">>

B64Value(c) == (CHOOSE k \in 1..64 : B64Alphabet[k] = c) - 1

IsB64Char(c) == \E k \in 1..64 : B64Alphabet[k] = c

\* The printable ASCII characters, code 32 first (code 96, the grave accent,
\* is written by name).
Printable ==
    <<" ", "!", "\"", "#", "$", "%", "&", "'", "(", ")", "*", "+", ",",
      "-", ".", "/", "0", "1", "2", "3", "4", "5", "6", "7", "8", "9",
      ":", ";", "<", "=", ">", "?", "@",
      "A", "B", "C", "D", "E", "F", "G", "H", "I", "J", "K", "L", "M",
      "N", "O", "P", "Q", "R", "S", "T", "U", "V", "W", "X", "Y", "Z",
      "[", "\\", "]", "^", "_", "GRAVE",
      "a", "b", "c", "d", "e", "f", "g", "h", "i", "j", "k", "l", "m",
      "n", "o", "p", "q", "r", "s", "t", "u", "v", "w", "x", "y", "z",
      "{", "|", "}", "~">>

\* String.prototype.split(","): the pieces of s between its commas.
RECURSIVE SplitComma(_)
SplitComma(s) ==
    IF \A k \in 1..Len(s) : s[k] # ","
    THEN <<s>>
    ELSE LET c == CHOOSE k \in 1..Len(s) :
                      s[k] = "," /\ \A j \in 1..(k - 1) : s[j] # ","
         IN  <<SubSeq(s, 1, c - 1)>> \o SplitComma(SubSeq(s, c + 1, Len(s)))

\* The base64 characters of s up to its padding, as 6-bit values.
RECURSIVE Sextets(_)
Sextets(s) ==
    IF s = <<>> \/ Head(s) = "=" THEN <<>>
    ELSE IF IsB64Char(Head(s)) THEN <<B64Value(Head(s))>> \o Sextets(Tail(s))
    ELSE Sextets(Tail(s))

\* The bytes that groups of four 6-bit values (the last group may be short) encode.
RECURSIVE BytesOf(_)
BytesOf(q) ==
    IF Len(q) < 2 THEN <<>>
    ELSE IF Len(q) = 2
         THEN <<q[1] * 4 + q[2] \div 16>>
    ELSE IF Len(q) = 3
         THEN <<q[1] * 4 + q[2] \div 16, (q[2] % 16) * 16 + q[3] \div 4>>
    ELSE <<q[1] * 4 + q[2] \div 16,
           (q[2] % 16) * 16 + q[3] \div 4,
           (q[3] % 4) * 64 + q[4]>> \o BytesOf(SubSeq(q, 5, Len(q)))

\* Buffer.toString("utf-8") of ASCII bytes; a byte that starts no valid
\* sequence decodes to U+FFFD.  Control characters are written by their code.
Utf8Char(b) ==
    IF b >= 128 THEN "U+FFFD"
    ELSE IF b >= 32 /\ b <= 126 THEN Printable[b - 31]
    ELSE "CTRL"

Utf8Decode(bytes) == [k \in 1..Len(bytes) |-> Utf8Char(bytes[k])]

\* Buffer.from(s, "base64").toString("utf-8"); each stage is computed once.
Base64ToUtf8(s) ==
    CHOOSE r \in {Utf8Decode(b) : b \in {BytesOf(q) : q \in {Sextets(s)}}} : TRUE

---------------------------------------------------------------------------
(* The contract, as the three view functions and the event the code uses. *)

\* contract.tokenByIndex(k): the ids of the tokens, in minting order.
TokenIdOf(k) == IF k % 2 = 0 THEN 101 + k ELSE 4 + k

\* The token URI the token at index k is minted with.  A well-formed one is
\* "data:,aGk=" ("hi" in base64) at an even index and "data:,eW91" ("you") at
\* an odd one; a malformed one is "data:aGk=", with no comma.
WellFormedURI(k) ==
    IF k % 2 = 0 THEN <<"d", "a", "t", "a", ":", ",", "a", "G", "k", "=">>
    ELSE <<"d", "a", "t", "a", ":", ",", "e", "W", "9", "1">>

MalformedURI == <<"d", "a", "t", "a", ":", "a", "G", "k", "=">>

MintedURIs(k) == {WellFormedURI(k), MalformedURI}

\* contract.totalSupply()
totalSupply == Len(chain)

\* contract.tokenURI(id), for a minted id
TokenURIOf(id) ==
    chain[(CHOOSE k \in 0..(Len(chain) - 1) : TokenIdOf(k) = id) + 1]

\* Whether a call to the RPC endpoint or to the Store may fail now.
Outcomes == IF stable THEN {TRUE} ELSE {TRUE, FALSE}

---------------------------------------------------------------------------
(* The Store. *)

\* A document matches the filter { tokenId: s }.  (MatchesOrKeyless: the
\* variant in which a document with no tokenId field matches every filter.)
MatchesOrKeyless(doc, s) == "tokenId" \notin DOMAIN doc \/ doc.tokenId = s
MatchesTokenId(doc, s) == "tokenId" \in DOMAIN doc /\ doc.tokenId = s

\* collection.findOne({ tokenId: s }): the first matching document's position,
\* 0 for null.
findOne(coll, s) ==
    IF \E k \in 1..Len(coll) : MatchesTokenId(coll[k], s)
    THEN CHOOSE k \in 1..Len(coll) :
             /\ MatchesTokenId(coll[k], s)
             /\ \A j \in 1..(k - 1) : ~MatchesTokenId(coll[j], s)
    ELSE 0

\* collection.insertOne(doc)  (replaceFirst: the variant that overwrites the
\* oldest document instead of adding one.)
replaceFirst(coll, doc) ==
    IF coll = <<>> THEN <<doc>> ELSE [coll EXCEPT ![1] = doc]
\* (insertOneIfAbsent: the variant with a unique index on tokenId, where the
\* insert of a second document with the same tokenId adds nothing.)
insertOneIfAbsent(coll, doc) ==
    IF "tokenId" \in DOMAIN doc /\ findOne(coll, doc.tokenId) # 0 THEN coll
    ELSE Append(coll, doc)
insertOne(coll, doc) == Append(coll, doc)

---------------------------------------------------------------------------
(* fetchAndStoreSVGs. *)

\* One invocation: where it is suspended (pc), who called it (origin), its
\* locals (provider, N for totalSupply, i, tokenId, tokenURI, svgContent), how
\* it ended (result) and what GET /fetch-svgs replied (status, 0 for nothing).
\* History: touched (it called the contract or the Store), inserted (documents
\* it inserted), errAt (the index it was at when its catch ran, else -1) and
\* hist ("alone": nothing else wrote "svgs" or changed the chain since it
\* started; "second": alone, and started right after such an invocation
\* returned with no RPC or store error; "disturbed": neither).
IdlePass ==
    [pc |-> "idle", origin |-> "none", provider |-> "none", N |-> 0, i |-> 0,
     tokenId |-> 0, tokenURI |-> <<>>, svgContent |-> <<>>, result |-> "none",
     status |-> 0, touched |-> FALSE, inserted |-> 0, errAt |-> -1,
     hist |-> "disturbed"]

Running(rec) == rec.pc # "idle"

\* GET /fetch-svgs: the status of the reply, by how fetchAndStoreSVGs ended.
FetchSvgsReply(result) == IF result = "thrown" THEN 500 ELSE 200

\* fetchAndStoreSVGs is over in rec: its caller resumes, and GET /fetch-svgs
\* replies.
Closed(rec, result) ==
    [rec EXCEPT !.pc = "closed", !.result = result,
                !.status = IF rec.origin = "http" THEN FetchSvgsReply(result) ELSE 0,
                !.tokenId = 0, !.tokenURI = <<>>, !.svgContent = <<>>]

\* The catch of fetchAndStoreSVGs: the error is logged and the function
\* returns; the result keeps what was caught.  (OnErrorRethrow: the variant
\* that lets the error leave the function.)
OnErrorRethrow(kind) == "thrown"
OnError(kind) == kind

\* An error thrown inside the loop, at index rec.i, reaches the catch.
Caught(rec, kind) == Closed([rec EXCEPT !.errAt = rec.i], OnError(kind))

\* if (!provider) return;  (ProviderFallThrough: the variant without the
\* return.)
ProviderFallThrough(rec) == [rec EXCEPT !.pc = "totalSupply"]
NoProvider(rec) == Closed(rec, "noProvider")

\* The loop condition i < totalSupply, with the value read before the loop.
\* (LoopHeadOffByOne: the variant that stops one index early.)
LoopHeadOffByOne(rec) ==
    IF rec.i + 1 < rec.N THEN [rec EXCEPT !.pc = "tokenByIndex"]
    ELSE Closed(rec, "finished")
\* (LoopHeadRereadsSupply: the variant that calls totalSupply in the loop
\* condition.)
LoopHeadRereadsSupply(rec) ==
    IF rec.i < totalSupply THEN [rec EXCEPT !.pc = "tokenByIndex"]
    ELSE Closed(rec, "finished")
LoopHead(rec) ==
    IF rec.i < rec.N THEN [rec EXCEPT !.pc = "tokenByIndex"]
    ELSE Closed(rec, "finished")

\* i++ and the next iteration (`continue`, or the end of the loop body).
NextIndex(rec) ==
    LoopHead([rec EXCEPT !.i = @ + 1, !.tokenId = 0, !.tokenURI = <<>>,
                         !.svgContent = <<>>])

\* tokenURI.split(",")[1] is undefined: Buffer.from(undefined, "base64") throws.
DecodeThrows(uri) == Len(SplitComma(uri)) < 2

\* Buffer.from(tokenURI.split(",")[1], "base64").toString("utf-8")
\* (DecodeSvgWholeURI: the variant that decodes the URI without splitting it.)
DecodeSvgWholeURI(uri) == Base64ToUtf8(uri)
DecodeSvg(uri) == Base64ToUtf8(SplitComma(uri)[2])

\* After findOne answered: skip an existing token, else decode and insert.
\* (AfterFindOneNoCheck: the variant without the existence check.)
AfterFindOneNoCheck(rec, coll) ==
    IF DecodeThrows(rec.tokenURI) THEN Caught(rec, "decodeError")
    ELSE [rec EXCEPT !.svgContent = DecodeSvg(rec.tokenURI), !.pc = "insertOne"]
AfterFindOne(rec, coll) ==
    IF findOne(coll, toString(rec.tokenId)) # 0 THEN NextIndex(rec)
    ELSE IF DecodeThrows(rec.tokenURI) THEN Caught(rec, "decodeError")
    ELSE [rec EXCEPT !.svgContent = DecodeSvg(rec.tokenURI), !.pc = "insertOne"]

\* The document insertOne is given.  (TokenRecordSharedId: the variant that
\* takes the id from a variable shared by all invocations.)
TokenRecordSharedId(rec) ==
    [tokenId |-> toString(pass[1].tokenId), svg |-> rec.svgContent]
TokenRecord(rec) == [tokenId |-> toString(rec.tokenId), svg |-> rec.svgContent]

\* Every running invocation has seen another writer or a change of the chain.
Disturb(f) ==
    [q \in Slots |-> IF Running(f[q]) THEN [f[q] EXCEPT !.hist = "disturbed"]
                     ELSE f[q]]

\* Invocation p goes on as rec.  An error that left a timer callback would be
\* an unhandled rejection, which ends the process.
Commit(p, rec) ==
    \E r \in {rec} :
        /\ pass' = [pass EXCEPT ![p] = IF r.pc = "closed" THEN IdlePass ELSE r]
        /\ last' = IF r.pc = "closed" THEN r ELSE last
        /\ alive' = (alive /\ ~(r.pc = "closed" /\ r.origin = "timer"
                                    /\ r.result = "thrown"))
        /\ afterClean' = (/\ r.pc = "closed"
                          /\ r.hist # "disturbed"
                          /\ r.result \in {"finished", "decodeError"})

\* A call of fetchAndStoreSVGs starts in slot p: await getProvider().
\* (StartPassNoAwait: the variant in which GET /fetch-svgs replies without
\* awaiting the call.)
StartPassNoAwait(p, origin) ==
    /\ alive
    /\ ~Running(pass[p])
    /\ pass' = [Disturb(pass) EXCEPT ![p] =
                   [IdlePass EXCEPT
                       !.pc = "getProvider",
                       !.origin = origin,
                       !.status = IF origin = "http" THEN 200 ELSE 0,
                       !.hist = IF afterClean THEN "second"
                                ELSE IF \A q \in Slots : ~Running(pass[q])
                                     THEN "alone" ELSE "disturbed"]]
    /\ afterClean' = FALSE
    /\ UNCHANGED <<chain, stable, alive, svgs, catTexts, listener, events,
                   catReq, pubReq, last>>
StartPass(p, origin) ==
    /\ alive
    /\ ~Running(pass[p])
    /\ pass' = [Disturb(pass) EXCEPT ![p] =
                   [IdlePass EXCEPT
                       !.pc = "getProvider",
                       !.origin = origin,
                       !.hist = IF afterClean THEN "second"
                                ELSE IF \A q \in Slots : ~Running(pass[q])
                                     THEN "alone" ELSE "disturbed"]]
    /\ afterClean' = FALSE
    /\ UNCHANGED <<chain, stable, alive, svgs, catTexts, listener, events,
                   catReq, pubReq, last>>

\* The setInterval callback of startPeriodicFetch.
TimerFire(p) == StartPass(p, "timer")

\* GET /fetch-svgs: await fetchAndStoreSVGs().
FetchSvgsRequest(p) == StartPass(p, "http")

\* getProvider: provider.getNetwork() answers or fails.
GetProvider(p) ==
    /\ alive
    /\ pass[p].pc = "getProvider"
    /\ \E ok \in Outcomes :
           Commit(p, IF ok THEN [pass[p] EXCEPT !.provider = "ok",
                                                !.pc = "totalSupply"]
                     ELSE NoProvider([pass[p] EXCEPT !.provider = "null"]))
    /\ UNCHANGED <<chain, stable, svgs, catTexts, listener, events, catReq, pubReq>>

\* await contract.totalSupply()
TotalSupply(p) ==
    /\ alive
    /\ pass[p].pc = "totalSupply"
    /\ LET rec == [pass[p] EXCEPT !.touched = TRUE]
       IN  \E ok \in Outcomes :
               Commit(p, IF ok THEN LoopHead([rec EXCEPT !.N = totalSupply, !.i = 0])
                         ELSE Closed(rec, OnError("rpcError")))
    /\ UNCHANGED <<chain, stable, svgs, catTexts, listener, events, catReq, pubReq>>

\* await contract.tokenByIndex(i)
TokenByIndex(p) ==
    /\ alive
    /\ pass[p].pc = "tokenByIndex"
    /\ \E ok \in Outcomes :
           Commit(p, IF ok THEN [pass[p] EXCEPT !.tokenId = TokenIdOf(pass[p].i),
                                                !.pc = "tokenURI"]
                     ELSE Caught(pass[p], "rpcError"))
    /\ UNCHANGED <<chain, stable, svgs, catTexts, listener, events, catReq, pubReq>>

\* await contract.tokenURI(tokenId)
TokenURI(p) ==
    /\ alive
    /\ pass[p].pc = "tokenURI"
    /\ \E ok \in Outcomes :
           Commit(p, IF ok THEN [pass[p] EXCEPT !.tokenURI = TokenURIOf(pass[p].tokenId),
                                                !.pc = "findOne"]
                     ELSE Caught(pass[p], "rpcError"))
    /\ UNCHANGED <<chain, stable, svgs, catTexts, listener, events, catReq, pubReq>>

\* await collection.findOne({ tokenId: tokenId.toString() }), then the
\* synchronous code up to the call of insertOne.
FindOne(p) ==
    /\ alive
    /\ pass[p].pc = "findOne"
    /\ \E ok \in Outcomes :
           Commit(p, IF ok THEN AfterFindOne(pass[p], svgs)
                     ELSE Caught(pass[p], "storeError"))
    /\ UNCHANGED <<chain, stable, svgs, catTexts, listener, events, catReq, pubReq>>

\* await collection.insertOne({ tokenId, svg, createdAt })
InsertOne(p) ==
    /\ alive
    /\ pass[p].pc = "insertOne"
    /\ \E ok \in Outcomes :
           IF ok
           THEN /\ svgs' = insertOne(svgs, TokenRecord(pass[p]))
                /\ Commit(p, NextIndex([pass[p] EXCEPT !.inserted = @ + 1]))
           ELSE /\ svgs' = svgs
                /\ Commit(p, Caught(pass[p], "storeError"))
    /\ UNCHANGED <<chain, stable, catTexts, listener, events, catReq, pubReq>>

---------------------------------------------------------------------------
(* The environment. *)

\* A token is minted on the contract.
Mint ==
    /\ ~stable
    /\ Len(chain) < MaxSupply
    /\ \E u \in MintedURIs(Len(chain)) : chain' = Append(chain, u)
    /\ pass' = Disturb(pass)
    /\ afterClean' = FALSE
    /\ UNCHANGED <<stable, alive, svgs, catTexts, listener, events, catReq,
                   pubReq, last>>

\* From now on no call fails and the chain does not change.
Stabilize ==
    /\ ~stable
    /\ stable' = TRUE
    /\ UNCHANGED <<chain, alive, pass, svgs, catTexts, listener, events,
                   catReq, pubReq, last, afterClean>>

---------------------------------------------------------------------------
(* listenForTextSetEvents and the TextSet handler. *)

\* The ids and texts of the TextSet events the contract emits.
TextIds == {5, 101}
Texts == {"a", "b"}

\* collection.updateOne({ tokenId: s }, { $set: { text } }, { upsert: true })
\* (updateOneAlwaysInsert: the variant that never updates in place.)
updateOneAlwaysInsert(coll, s, text) == Append(coll, [tokenId |-> s, text |-> text])
updateOne(coll, s, text) ==
    IF findOne(coll, s) # 0
    THEN [coll EXCEPT ![findOne(coll, s)].text = text]
    ELSE Append(coll, [tokenId |-> s, text |-> text])

\* await getProvider() of listenForTextSetEvents, the one connection attempt,
\* and contract.on("TextSet", ...) when it succeeded.  (ListenerConnectRetry:
\* the variant that tries again after a failed attempt.)
ListenerConnectRetry ==
    /\ alive
    /\ listener.state # "Subscribed"
    /\ \E ok \in Outcomes :
           listener' = [state |-> IF ok THEN "Subscribed" ELSE "Disconnected",
                        attempted |-> TRUE]
    /\ UNCHANGED <<chain, stable, alive, pass, svgs, catTexts, events, catReq,
                   pubReq, last, afterClean>>
ListenerConnect ==
    /\ alive
    /\ ~listener.attempted
    /\ \E ok \in Outcomes :
           listener' = [state |-> IF ok THEN "Subscribed" ELSE "Disconnected",
                        attempted |-> TRUE]
    /\ UNCHANGED <<chain, stable, alive, pass, svgs, catTexts, events, catReq,
                   pubReq, last, afterClean>>

\* A TextSet event is delivered: the handler runs up to await updateOne(...).
TextSet(id, text) ==
    /\ alive
    /\ listener.state = "Subscribed"
    /\ Len(events) < MaxEvents
    /\ events' = Append(events, [tokenId |-> id, text |-> text,
                                 pc |-> "updateOne", result |-> "pending"])
    /\ UNCHANGED <<chain, stable, alive, pass, svgs, catTexts, listener, catReq,
                   pubReq, last, afterClean>>

\* The updateOne of the k-th delivered event is applied by the Store, or fails
\* and is caught by the handler.  (UpdateOneRedelivered: the variant in which
\* the handler stays armed for the same event.  UpdateOneUncaught: the variant
\* without the try/catch, where a failed upsert is an unhandled rejection.)
UpdateOneRedelivered(k) ==
    /\ alive
    /\ k \in 1..Len(events)
    /\ events[k].pc = "updateOne"
    /\ catTexts' = updateOne(catTexts, toString(events[k].tokenId), events[k].text)
    /\ events' = [events EXCEPT ![k].result = "stored"]
    /\ UNCHANGED <<chain, stable, alive, pass, svgs, listener, catReq, pubReq,
                   last, afterClean>>
UpdateOneUncaught(k) ==
    /\ k \in 1..Len(events)
    /\ events[k].pc = "updateOne"
    /\ \E ok \in Outcomes :
           /\ catTexts' = IF ok THEN updateOne(catTexts, toString(events[k].tokenId),
                                               events[k].text)
                          ELSE catTexts
           /\ events' = [events EXCEPT ![k].pc = "done",
                                       ![k].result = IF ok THEN "stored" ELSE "failed"]
           /\ alive' = (alive /\ ok)
    /\ UNCHANGED <<chain, stable, pass, svgs, listener, catReq, pubReq,
                   last, afterClean>>
UpdateOne(k) ==
    /\ alive
    /\ k \in 1..Len(events)
    /\ events[k].pc = "updateOne"
    /\ \E ok \in Outcomes :
           /\ catTexts' = IF ok THEN updateOne(catTexts, toString(events[k].tokenId),
                                               events[k].text)
                          ELSE catTexts
           /\ events' = [events EXCEPT ![k].pc = "done",
                                       ![k].result = IF ok THEN "stored" ELSE "failed"]
    /\ UNCHANGED <<chain, stable, alive, pass, svgs, listener, catReq, pubReq,
                   last, afterClean>>

---------------------------------------------------------------------------
(* The HTTP handlers that use the Store. *)

JsonNull == [type |-> "null", value |-> ""]
JsonString(t) == [type |-> "string", value |-> t]
JsonError(msg) == [type |-> "error", value |-> msg]

\* The :tokenId path parameters requested.
CatTextParams == { <<"5">>, <<"0", "5">> }

\* The svg bodies published.
PublishBodies == { <<"<", "p", ">">> }

IdleReq == [pc |-> "idle", param |-> <<>>, status |-> 0, body |-> JsonNull,
            err |-> FALSE]

\* GET /get-cat-text/:tokenId arrives: await collection.findOne(...).
GetCatTextRequest(param) ==
    /\ alive
    /\ catReq.pc # "findOne"
    /\ catReq' = [IdleReq EXCEPT !.pc = "findOne", !.param = param]
    /\ UNCHANGED <<chain, stable, alive, pass, svgs, catTexts, listener, events,
                   pubReq, last, afterClean>>

\* res.json(result ? result.text : null)  (CatTextBodyAlwaysNull: the variant
\* that ignores the document found.)
CatTextBodyAlwaysNull(coll, param) == JsonNull
CatTextBody(coll, param) ==
    IF findOne(coll, param) # 0 THEN JsonString(coll[findOne(coll, param)].text)
    ELSE JsonNull

\* findOne answers and the handler replies, or findOne fails and it replies 500.
GetCatTextFindOne ==
    /\ alive
    /\ catReq.pc = "findOne"
    /\ \E ok \in Outcomes :
           catReq' = IF ok
                     THEN [catReq EXCEPT !.pc = "responded", !.status = 200,
                                         !.body = CatTextBody(catTexts, catReq.param)]
                     ELSE [catReq EXCEPT !.pc = "responded", !.status = 500,
                                         !.err = TRUE,
                                         !.body = JsonError("Failed to fetch cat text")]
    /\ UNCHANGED <<chain, stable, alive, pass, svgs, catTexts, listener, events,
                   pubReq, last, afterClean>>

\* The documents of "svgs" that /publish-svg inserted.
Published == {k \in 1..Len(svgs) : "tokenId" \notin DOMAIN svgs[k]}

IdlePub == [pc |-> "idle", svg |-> <<>>, status |-> 0, id |-> 0]

\* POST /publish-svg arrives: await collection.insertOne({ svg, createdAt }).
PublishSvgRequest(svg) ==
    /\ alive
    /\ pubReq.pc # "insertOne"
    /\ Cardinality(Published) < MaxPublished
    /\ pubReq' = [IdlePub EXCEPT !.pc = "insertOne", !.svg = svg]
    /\ UNCHANGED <<chain, stable, alive, pass, svgs, catTexts, listener, events,
                   catReq, last, afterClean>>

\* insertOne answers and the handler replies with the new document's id (its
\* position in the collection), or insertOne fails and it replies 500.
PublishSvgInsertOne ==
    /\ alive
    /\ pubReq.pc = "insertOne"
    /\ \E ok \in Outcomes :
           IF ok
           THEN /\ svgs' = insertOne(svgs, [svg |-> pubReq.svg])
                /\ pubReq' = [pubReq EXCEPT !.pc = "responded", !.status = 200,
                                            !.id = Len(svgs) + 1]
                /\ pass' = Disturb(pass)
                /\ afterClean' = FALSE
           ELSE /\ pubReq' = [pubReq EXCEPT !.pc = "responded", !.status = 500]
                /\ UNCHANGED <<svgs, pass, afterClean>>
    /\ UNCHANGED <<chain, stable, alive, catTexts, listener, events, catReq, last>>

---------------------------------------------------------------------------
(* The specifications. *)

Init ==
    /\ chain = <<>>
    /\ stable = FALSE
    /\ alive = TRUE
    /\ pass = [p \in Slots |-> IdlePass]
    /\ svgs = <<>>
    /\ catTexts = <<>>
    /\ listener = [state |-> "Disconnected", attempted |-> FALSE]
    /\ events = <<>>
    /\ catReq = IdleReq
    /\ pubReq = IdlePub
    /\ last = IdlePass
    /\ afterClean = FALSE

\* One step of the invocation of fetchAndStoreSVGs in slot p.
PassStep(p) ==
    \/ GetProvider(p)
    \/ TotalSupply(p)
    \/ TokenByIndex(p)
    \/ TokenURI(p)
    \/ FindOne(p)
    \/ InsertOne(p)

\* The Reconciler and what it reads and writes.
NextReconciler ==
    \/ Mint
    \/ Stabilize
    \/ \E p \in Slots : TimerFire(p)
    \/ \E p \in Slots : FetchSvgsRequest(p)
    \/ \E p \in Slots : PassStep(p)

\* The Listener and the reader of what it writes.
NextListener ==
    \/ Stabilize
    \/ ListenerConnect
    \/ \E id \in TextIds, text \in Texts : TextSet(id, text)
    \/ \E k \in 1..MaxEvents : UpdateOne(k)
    \/ \E param \in CatTextParams : GetCatTextRequest(param)
    \/ GetCatTextFindOne

\* POST /publish-svg.
NextPublish ==
    \/ PublishSvgInsertOne
    \/ \E svg \in PublishBodies : PublishSvgRequest(svg)

Next == NextReconciler \/ NextListener \/ NextPublish

Spec == Init /\ [][Next]_vars

SpecReconciler == Init /\ [][NextReconciler]_vars

SpecListener == Init /\ [][NextListener]_vars

\* The periodic Reconciler alone.
NextPeriodic ==
    \/ Mint
    \/ Stabilize
    \/ \E p \in Slots : TimerFire(p)
    \/ \E p \in Slots : PassStep(p)

\* setInterval keeps firing the callback, and every call to the RPC endpoint
\* or to the Store is answered in the end (with a result or with an error).
SpecPeriodic ==
    /\ Init
    /\ [][NextPeriodic]_vars
    /\ WF_vars(\E p \in Slots : TimerFire(p))
    /\ \A p \in Slots : WF_vars(PassStep(p))

\* Every writer and reader of the Store together: one invocation of
\* fetchAndStoreSVGs at a time, /publish-svg, the Listener and
\* /get-cat-text.  Calls may fail at any time (Stabilize only removes
\* behaviours).
NextStore ==
    \/ Mint
    \/ TimerFire(1)
    \/ FetchSvgsRequest(1)
    \/ PassStep(1)
    \/ PublishSvgInsertOne
    \/ \E svg \in PublishBodies : PublishSvgRequest(svg)
    \/ ListenerConnect
    \/ TextSet(5, "a")
    \/ \E k \in 1..MaxEvents : UpdateOne(k)
    \/ GetCatTextRequest(<<"5">>)
    \/ GetCatTextFindOne

SpecStore == Init /\ [][NextStore]_vars


---------------------------------------------------------------------------
(* The claims. *)

\* An invocation that ended with no RPC error and no Store error.
NoRpcOrStoreError(rec) == rec.result \in {"finished", "decodeError"}

\* The positions of the documents of coll whose tokenId is s.
WithTokenId(coll, s) == {k \in 1..Len(coll) : MatchesTokenId(coll[k], s)}

\* C1 (idempotence): an invocation of fetchAndStoreSVGs that started right
\* after another one returned, both undisturbed (no other writer of "svgs", no
\* change of the chain) and both without RPC or Store error, inserts nothing.
C1_SecondPassInsertsNothing ==
    (last.hist = "second" /\ NoRpcOrStoreError(last)) => last.inserted = 0

\* Two invocations in a row, the first of which stored both tokens.
C1_Witness ==
    /\ last.hist = "second"
    /\ last.result = "finished"
    /\ last.N = 2
    /\ Len(svgs) = 2

\* C2 (completeness): after an invocation that read totalSupply = N and ran
\* its loop to the end, "svgs" holds a document for the token at every index
\* below N.
C2_AllIndicesStored ==
    last.result = "finished" =>
        \A k \in 0..(last.N - 1) : WithTokenId(svgs, toString(TokenIdOf(k))) # {}

C2_Witness == last.result = "finished" /\ last.N = 2 /\ last.inserted = 2

\* C3 (per-token error isolation), as claimed: when the catch ran at index k,
\* the invocation went on to every index j with k < j < N.
C3_ErrorDoesNotAbortBatch ==
    last.errAt >= 0 => \A j \in (last.errAt + 1)..(last.N - 1) : j <= last.i

\* C4 (uniqueness), as claimed: no two documents of "svgs" carry the same
\* tokenId.
C4_UniqueTokenId ==
    \A a, b \in 1..Len(svgs) :
        (a # b /\ "tokenId" \in DOMAIN svgs[a] /\ "tokenId" \in DOMAIN svgs[b])
            => svgs[a].tokenId # svgs[b].tokenId

\* The last TextSet event delivered for id.
LastDelivered(id) ==
    CHOOSE k \in 1..Len(events) :
        /\ events[k].tokenId = id
        /\ \A j \in (k + 1)..Len(events) : events[j].tokenId # id

\* C5 (last write wins), as claimed: once every handler of the events
\* delivered for an id has completed with no Store error, "catTexts" holds
\* exactly one document for the id, with the text of the event delivered
\* last; and "catTexts" never holds two documents for one id.
C5_LastDeliveredWins ==
    /\ \A id \in TextIds :
           (/\ \E k \in 1..Len(events) : events[k].tokenId = id
            /\ \A k \in 1..Len(events) :
                   events[k].tokenId = id => events[k].result = "stored")
           => /\ Cardinality(WithTokenId(catTexts, toString(id))) = 1
              /\ catTexts[findOne(catTexts, toString(id))].text
                     = events[LastDelivered(id)].text
    /\ \A id \in TextIds : Cardinality(WithTokenId(catTexts, toString(id))) <= 1

\* C6 (no provider): an invocation whose getProvider returned null is over at
\* once: it has called neither the contract nor the Store, inserted nothing,
\* threw nothing at its caller, and the process and its timer go on.
C6_NoProviderNoSideEffect ==
    /\ \A p \in Slots : pass[p].provider # "null"
    /\ last.provider = "null" =>
           /\ last.result = "noProvider"
           /\ ~last.touched
           /\ last.inserted = 0
           /\ last.N = 0
           /\ alive

C6_Witness == last.provider = "null" /\ last.origin = "timer" /\ Len(chain) = 2

\* C7 (500 on failure), as claimed: GET /fetch-svgs replies 500 exactly when
\* its invocation of fetchAndStoreSVGs failed as a whole.
C7_Reply500WhenPassFailed ==
    last.origin = "http" =>
        (last.status = 500 <=> last.result # "finished")

\* C8 (reply after the pass): GET /fetch-svgs has not replied while its
\* invocation is running, it replies when the invocation returns, and the
\* request starts one invocation and no other.
C8_ReplyOnlyAfterPass ==
    /\ [](\A p \in Slots : Running(pass[p]) => pass[p].status = 0)
    /\ [](last.origin = "http" => last.pc = "closed" /\ last.status # 0)
    /\ [][\A p \in Slots :
              (~Running(pass[p]) /\ Running(pass'[p]) /\ pass'[p].origin = "http")
                  => \A q \in Slots \ {p} : Running(pass'[q]) = Running(pass[q])]_vars

\* A request whose invocation stored two tokens before the reply.
C8_Witness == last.origin = "http" /\ last.status = 200 /\ last.inserted = 2

\* C9 (get-cat-text): the handler replies 500 exactly when the lookup failed,
\* else 200 with the text of the document whose tokenId is the path parameter,
\* or null when there is none; the request changes no collection.
C9_GetCatText ==
    [][/\ catReq' # catReq => (svgs' = svgs /\ catTexts' = catTexts)
       /\ (catReq.pc = "findOne" /\ catReq'.pc = "responded") =>
              /\ catReq'.status = IF catReq'.err THEN 500 ELSE 200
              /\ ~catReq'.err =>
                     catReq'.body =
                         IF WithTokenId(catTexts, catReq.param) = {} THEN JsonNull
                         ELSE JsonString(
                                  (CHOOSE d \in {catTexts[k] : k \in 1..Len(catTexts)} :
                                       d.tokenId = catReq.param).text)]_vars

\* null for "05" while "5" has a document, and the text for "5".
C9_Witness ==
    /\ catReq.pc = "responded"
    /\ catReq.status = 200
    /\ catReq.param = <<"0", "5">>
    /\ catReq.body = JsonNull
    /\ WithTokenId(catTexts, <<"5">>) # {}

\* "svgs" holds a document for the token at index k.
Stored(k) == WithTokenId(svgs, toString(TokenIdOf(k))) # {}

\* The token URIs at the indices up to k can all be decoded.
DecodableUpTo(k) == \A j \in 0..k : ~DecodeThrows(chain[j + 1])

C11_SvgsCreateOnly ==
    [][/\ Len(svgs') >= Len(svgs)
       /\ SubSeq(svgs', 1, Len(svgs)) = svgs]_vars

\* A published document, then two inserted by a pass, with the Listener and
\* the read endpoint having run as well.
C11_Witness ==
    /\ Len(svgs) = 3
    /\ Published = {1}
    /\ last.inserted = 2
    /\ catTexts # <<>>
    /\ catReq.pc = "responded"
    /\ pubReq.pc = "responded"

\* The events whose upsert the Store applied.
StoredEvents == {k \in 1..Len(events) : events[k].result = "stored"}

\* C12 (disjoint writers): "catTexts" changes only in a step in which the
\* handler of one delivered TextSet event completes its one updateOne, and
\* that step is the upsert of that event; a completed handler never runs
\* again; such a step, like every step of the Listener, leaves "svgs" and
\* every invocation of fetchAndStoreSVGs and HTTP request as they are; there
\* are never more documents in "catTexts" than applied upserts.
C12_DisjointWriters ==
    /\ [](Len(catTexts) <= Cardinality(StoredEvents))
    /\ [][/\ catTexts' # catTexts =>
              \E k \in 1..Len(events) :
                  /\ events[k].pc = "updateOne"
                  /\ events' = [events EXCEPT ![k].pc = "done",
                                              ![k].result = "stored"]
                  /\ catTexts' = updateOne(catTexts, toString(events[k].tokenId),
                                           events[k].text)
          /\ \A k \in 1..Len(events) :
                 events[k].pc = "done" => events'[k] = events[k]
          /\ (catTexts' # catTexts \/ events' # events \/ listener' # listener) =>
                 /\ svgs' = svgs
                 /\ pass' = pass /\ last' = last
                 /\ catReq' = catReq /\ pubReq' = pubReq]_vars

\* Two events upserted into one document while a pass and a publish request
\* wrote "svgs".
C12_Witness ==
    /\ Cardinality(StoredEvents) = 2
    /\ Len(catTexts) = 1
    /\ Len(svgs) = 2
    /\ Published # {}
    /\ last.inserted = 1
    /\ catReq.pc = "responded"

\* What follows the first comma of uri.
AfterFirstComma(uri) ==
    LET c == CHOOSE k \in 1..Len(uri) :
                 uri[k] = "," /\ \A j \in 1..(k - 1) : uri[j] # ","
    IN  SubSeq(uri, c + 1, Len(uri))

\* uri is "<prefix>,<B>" with B a base64 payload.
HasBase64Payload(uri) ==
    /\ \E k \in 1..Len(uri) : uri[k] = ","
    /\ \A k \in 1..Len(AfterFirstComma(uri)) :
           IsB64Char(AfterFirstComma(uri)[k]) \/ AfterFirstComma(uri)[k] = "="

\* C13 (decode correctness): every document of "svgs" with a tokenId carries
\* the decimal string of the id of a minted token, and when that token's URI
\* is "<prefix>,<B>" its svg is the UTF-8 decoding of the base64 payload B
\* after the first comma.
C13_DecodeCorrect ==
    \A k \in 1..Len(svgs) :
        "tokenId" \in DOMAIN svgs[k] =>
            \E idx \in 0..(Len(chain) - 1) :
                /\ svgs[k].tokenId = toString(TokenIdOf(idx))
                /\ HasBase64Payload(chain[idx + 1]) =>
                       svgs[k].svg = Base64ToUtf8(AfterFirstComma(chain[idx + 1]))

\* "aGk=" stored as "hi" for token 101 and "eW91" as "you" for token 5.
C13_Witness ==
    /\ Len(svgs) = 2
    /\ svgs[1] = [tokenId |-> <<"1", "0", "1">>, svg |-> <<"h", "i">>]
    /\ svgs[2] = [tokenId |-> <<"5">>, svg |-> <<"y", "o", "u">>]

\* The invocation in slot p as the step leaves it (a returned one is in last).
After(p) == IF Running(pass[p]) /\ ~Running(pass'[p]) THEN last' ELSE pass'[p]

\* C14 (duplicate-insert race): nothing orders the existence check of one
\* invocation against the insert of another.  The answer to findOne sends an
\* invocation to insertOne exactly by what "svgs" holds at that moment; an
\* insertOne that the Store applies always adds a document with the
\* invocation's tokenId, whether or not one is there by now; and an invocation
\* that ran with no other one never inserts a tokenId that is already there.
C14_InsertAfterStaleCheck ==
    [][\A p \in Slots :
          /\ (pass[p].pc = "findOne" /\ After(p).pc = "insertOne") =>
                 WithTokenId(svgs, toString(pass[p].tokenId)) = {}
          /\ (pass[p].pc = "findOne" /\ After(p).i = pass[p].i + 1) =>
                 WithTokenId(svgs, toString(pass[p].tokenId)) # {}
          /\ (pass[p].pc = "insertOne" /\ After(p).inserted = pass[p].inserted + 1) =>
                 /\ svgs' = Append(svgs, [tokenId |-> toString(pass[p].tokenId),
                                          svg |-> pass[p].svgContent])
                 /\ pass[p].hist # "disturbed" =>
                        WithTokenId(svgs, toString(pass[p].tokenId)) = {}]_vars

\* One token on the chain, two overlapping invocations, both returned: two
\* documents with its tokenId.
C14_Witness ==
    /\ Len(chain) = 1
    /\ Len(svgs) = 2
    /\ svgs[1].tokenId = svgs[2].tokenId
    /\ \A p \in Slots : ~Running(pass[p])
    /\ last.result = "finished"
    /\ last.inserted = 1
    /\ last.hist = "disturbed"

\* C15 (existence check before the URI fetch), as claimed: an invocation calls
\* contract.tokenURI only for a token id that has no document in "svgs", and
\* it passes an index whose id has one with no Store write.  The first part
\* is stated for an invocation that runs with no other one, so that no
\* document can appear between its check and its fetch.
C15_TokenURIOnlyWhenAbsent ==
    [][\A p \in Slots :
          /\ (/\ pass[p].pc = "tokenURI"
              /\ pass[p].hist # "disturbed"
              /\ After(p).pc # "tokenURI") =>
                 WithTokenId(svgs, toString(pass[p].tokenId)) = {}
          /\ (pass[p].pc = "findOne" /\ After(p).i = pass[p].i + 1) =>
                 svgs' = svgs]_vars

\* The invocation is inside the loop body.
InLoop(rec) == rec.pc \in {"tokenByIndex", "tokenURI", "findOne", "insertOne"}

\* C16 (totalSupply read once): an invocation reads totalSupply in one step,
\* before its loop, and never again; the value N it read does not change
\* afterwards whatever is minted; the index goes up by one at a time from 0
\* and the loop body only runs at an index below N, so the invocation inserts
\* for no index at or beyond N; an invocation that ran to the end stopped at N.
C16_TotalSupplyReadOnce ==
    /\ [](\A p \in Slots :
              /\ InLoop(pass[p]) => (pass[p].i < pass[p].N /\ pass[p].N <= Len(chain))
              /\ pass[p].pc \in {"getProvider", "totalSupply"} =>
                     (pass[p].N = 0 /\ pass[p].i = 0))
    /\ [](last.i <= last.N /\ (last.result = "finished" => last.i = last.N))
    /\ [][\A p \in Slots :
              /\ After(p).pc = "totalSupply" =>
                     pass[p].pc \in {"getProvider", "totalSupply"}
              /\ (pass[p].pc = "totalSupply" /\ InLoop(After(p))) =>
                     After(p).N = Len(chain)
              /\ InLoop(pass[p]) =>
                     /\ After(p).N = pass[p].N
                     /\ After(p).i \in {pass[p].i, pass[p].i + 1}
              /\ After(p).inserted # pass[p].inserted =>
                     /\ InLoop(pass[p])
                     /\ svgs' = Append(svgs,
                                   [tokenId |-> toString(TokenIdOf(pass[p].i)),
                                    svg |-> pass[p].svgContent])]_vars

\* An invocation read totalSupply = 1, a second token was minted since, and
\* the invocation is at the insert of its last index.
C16_Witness ==
    /\ Len(chain) = 2
    /\ \E p \in Slots :
           /\ pass[p].pc = "insertOne"
           /\ pass[p].N = 1
           /\ pass[p].i = 0
    /\ \A p \in Slots : Running(pass[p]) => pass[p].N = 1
    /\ ~Stored(1)

\* C17 (Listener state machine): the Listener is Disconnected until its one
\* connection attempt; the attempt is the only step that changes its state;
\* once Subscribed it stays Subscribed; after a failed attempt it stays
\* Disconnected, whatever the network does later; and while it is
\* Disconnected no TextSet handler has run and "catTexts" is empty.
C17_ListenerStateMachine ==
    /\ [](listener.state \in {"Disconnected", "Subscribed"})
    /\ [](~listener.attempted => listener.state = "Disconnected")
    /\ [](listener.state = "Disconnected" => (events = <<>> /\ catTexts = <<>>))
    /\ [][/\ listener' # listener => (~listener.attempted /\ listener'.attempted)
          /\ listener.state = "Subscribed" => listener'.state = "Subscribed"
          /\ (listener.attempted /\ listener.state = "Disconnected") =>
                 listener' = listener]_vars

\* The attempt failed; calls succeed by now, and a read finds nothing.
C17_Witness ==
    /\ listener.attempted
    /\ listener.state = "Disconnected"
    /\ stable
    /\ catReq.pc = "responded"
    /\ catReq.status = 200
    /\ catReq.body = JsonNull

\* C18 (upsert failure contained): a failed updateOne is caught by its
\* handler: the process goes on, that step leaves "catTexts" and the
\* subscription as they are, a handler that completed (stored or failed)
\* never runs again, and the updateOne of every other delivered event can
\* still be applied and, when the Store applies it, is the upsert of that
\* event.
C18_UpsertFailureContained ==
    /\ []alive
    /\ [](\A k \in 1..Len(events) :
              /\ events[k].result = "failed" => events[k].pc = "done"
              /\ events[k].pc = "updateOne" => ENABLED UpdateOne(k))
    /\ [][\A k \in 1..Len(events) :
              /\ (events[k].pc = "updateOne" /\ events'[k].result = "failed") =>
                     /\ catTexts' = catTexts
                     /\ listener' = listener
                     /\ events' = [events EXCEPT ![k].pc = "done",
                                                 ![k].result = "failed"]
              /\ events[k].pc = "done" => events'[k] = events[k]
              /\ (events[k].pc = "updateOne" /\ events'[k].result = "stored") =>
                     catTexts' = updateOne(catTexts, toString(events[k].tokenId),
                                           events[k].text)]_vars

\* The upsert of the first event for token 5 failed; the second event for
\* token 5, delivered later, is stored.
C18_Witness ==
    /\ Len(events) = 2
    /\ events[1].result = "failed" /\ events[1].tokenId = 5 /\ events[1].text = "a"
    /\ events[2].result = "stored" /\ events[2].tokenId = 5 /\ events[2].text = "b"
    /\ catTexts = <<[tokenId |-> <<"5">>, text |-> "b"]>>
    /\ listener.state = "Subscribed"

\* The positions in "svgs" of the documents carrying the tokenId s.
KeyedFor(s) ==
    {k \in 1..Len(svgs) : "tokenId" \in DOMAIN svgs[k] /\ svgs[k].tokenId = s}

\* C19 (published documents do not interfere): a /publish-svg request that
\* succeeds adds exactly the one document { svg } with no tokenId, and one
\* that fails adds nothing; an invocation of fetchAndStoreSVGs skips an index
\* only when a document carrying its tokenId is there, and goes on to insert
\* when none is, whatever was published; so after an invocation that ran its
\* loop to the end every index below the N it read has a document carrying
\* its tokenId.
C19_PublishedDoNotInterfere ==
    /\ [](last.result = "finished" =>
              \A idx \in 0..(last.N - 1) : KeyedFor(toString(TokenIdOf(idx))) # {})
    /\ [][/\ (pubReq.pc = "insertOne" /\ pubReq'.pc = "responded") =>
                 /\ pubReq'.status \in {200, 500}
                 /\ pubReq'.status = 200 => svgs' = Append(svgs, [svg |-> pubReq.svg])
                 /\ pubReq'.status = 500 => svgs' = svgs
          /\ \A p \in Slots :
                 /\ (pass[p].pc = "findOne" /\ After(p).i = pass[p].i + 1) =>
                        KeyedFor(toString(pass[p].tokenId)) # {}
                 /\ (pass[p].pc = "findOne" /\ After(p).pc = "insertOne") =>
                        KeyedFor(toString(pass[p].tokenId)) = {}
                 /\ (/\ pass[p].pc = "findOne"
                     /\ KeyedFor(toString(pass[p].tokenId)) = {}
                     /\ After(p).result \notin {"storeError", "decodeError"}) =>
                        After(p).pc \in {"findOne", "insertOne"}]_vars

\* A document was published first; an invocation then stored both tokens.
C19_Witness ==
    /\ pubReq.pc = "responded" /\ pubReq.status = 200 /\ pubReq.id = 1
    /\ Len(svgs) = 3
    /\ "tokenId" \notin DOMAIN svgs[1]
    /\ last.result = "finished" /\ last.N = 2 /\ last.inserted = 2
    /\ last.hist = "disturbed"

\* C20 (no cross-wiring): in every invocation the tokenId it holds is the id
\* of the token at its own index, the tokenURI it holds is that token's URI
\* and the svgContent it holds is decoded from that URI; a document is added
\* to "svgs" only by an invocation at its insertOne, and carries that
\* invocation's tokenId and svgContent, so the id and the svg of a document
\* belong to one token.
C20_NoCrossWiring ==
    /\ [](\A p \in Slots :
              /\ pass[p].pc \in {"tokenURI", "findOne", "insertOne"} =>
                     pass[p].tokenId = TokenIdOf(pass[p].i)
              /\ pass[p].pc \in {"findOne", "insertOne"} =>
                     pass[p].tokenURI = chain[pass[p].i + 1]
              /\ pass[p].pc = "insertOne" =>
                     pass[p].svgContent
                         = Base64ToUtf8(AfterFirstComma(chain[pass[p].i + 1])))
    /\ [](\A k \in 1..Len(svgs) :
              "tokenId" \in DOMAIN svgs[k] =>
                  \E idx \in 0..(Len(chain) - 1) :
                      /\ svgs[k].tokenId = toString(TokenIdOf(idx))
                      /\ svgs[k].svg = Base64ToUtf8(AfterFirstComma(chain[idx + 1])))
    /\ [][svgs' # svgs =>
              \E p \in Slots :
                  /\ pass[p].pc = "insertOne"
                  /\ After(p).inserted = pass[p].inserted + 1
                  /\ svgs' = Append(svgs,
                                [tokenId |-> toString(TokenIdOf(pass[p].i)),
                                 svg |-> Base64ToUtf8(
                                             AfterFirstComma(chain[pass[p].i + 1]))])]_vars

\* Two overlapping invocations at the insert of different tokens, the first
\* token being stored already by one of them.
C20_Witness ==
    /\ pass[1].pc = "insertOne" /\ pass[1].i = 0
    /\ pass[2].pc = "insertOne" /\ pass[2].i = 1
    /\ svgs = <<[tokenId |-> <<"1", "0", "1">>, svg |-> <<"h", "i">>]>>

====
